---- MODULE Spec2Model ----
(***************************************************************************)
(* Model of fast_assign_true.c: the MEX entry point mexFunction, which     *)
(* turns a cell array of uint64 index vectors and a double scalar size     *)
(* into a cell array of logical column vectors.                            *)
(*                                                                         *)
(* One call is modelled statement by statement.  pc names the source line  *)
(* about to be executed.  Numeric doubles are modelled in halves (the      *)
(* field val2 is twice the double), so that the double -> size_t           *)
(* conversion of line 40 is a real conversion and not the identity.        *)
(***************************************************************************)
EXTENDS Integers, Sequences, FiniteSets, TLC

(* ---- bounds of the model ---- *)
MaxBatch == 2        \* index vectors per cell array
MaxSetLen == 2       \* elements per index vector
MaxVal == 2          \* largest uint64 index value drawn
MaxLen == 2          \* largest size whose buffer can be allocated
MaxNegHalves == 3    \* most negative size drawn, in halves (-1.5)

VARIABLES
    nlhs, nrhs,      \* arity the caller asked for
    in_indices,      \* prhs[0]: [class, cells]
    in_size,         \* prhs[1]: [class, n, val2]
    pc,              \* source line about to run, or "done"
    n_indices,       \* local of line 32
    n_size,          \* local of line 33
    size,            \* local of line 40 (size_t)
    i, j,            \* loop counters
    out,             \* cells of the output cell array: 0 is NULL, h > 0 a mask handle
    outCreated,      \* how many times the output cell array was created
    outReleased,     \* how many times the output cell array was destroyed
    heap,            \* logical matrices created so far: [data, released]
    cur,             \* handle of logical_inds of the current iteration (0: none)
    plhs,            \* the output array: empty, or <<the masks handed to the caller>>
    status,          \* "running", "ok", the message of the error raised, or "crash"
    inspected,       \* some input argument has been looked at
    wild             \* a store happened outside the buffer it was aimed at

vars == <<nlhs, nrhs, in_indices, in_size, pc, n_indices, n_size, size, i, j,
          out, outCreated, outReleased, heap, cur, plhs, status, inspected, wild>>

(* ---- inputs ---- *)
SeqsUpTo(S, n) == UNION {[1..k -> S] : k \in 0..n}

IndexVectors == SeqsUpTo(0..MaxVal, MaxSetLen)

Cells ==
    [class : {"mxUINT64_CLASS"}, data : IndexVectors]
        \cup {[class |-> "mxDOUBLE_CLASS", data |-> <<>>]}

Batches == SeqsUpTo(Cells, MaxBatch)

DefaultBatch == <<[class |-> "mxUINT64_CLASS", data |-> <<0>>]>>

SizeValues2 == (0 - MaxNegHalves)..(2 * MaxLen + 1)

ArityCases ==
    {a \in [nrhs : 0..3, nlhs : 0..2,
            indices : {[class |-> "mxCELL_CLASS", cells |-> DefaultBatch]},
            size : {[class |-> "mxDOUBLE_CLASS", n |-> 1, val2 |-> 2]}] :
        ~(a.nrhs = 2 /\ a.nlhs = 1)}

ShapeCases ==
    [nrhs : {2}, nlhs : {1},
     indices : [class : {"mxCELL_CLASS", "mxDOUBLE_CLASS"}, cells : {<<>>, DefaultBatch}],
     size : [class : {"mxDOUBLE_CLASS", "mxUINT64_CLASS"}, n : 0..2, val2 : {2}]]

ConvCases ==
    [nrhs : {2}, nlhs : {1},
     indices : [class : {"mxCELL_CLASS"}, cells : Batches],
     size : [class : {"mxDOUBLE_CLASS"}, n : {1}, val2 : SizeValues2]]

Calls == ArityCases \cup ShapeCases \cup ConvCases

(* ---- the MEX API as the function uses it ---- *)
mxGetClassID(a) == a.class

mxGetNumberOfElements(a) == IF "cells" \in DOMAIN a THEN Len(a.cells)
                            ELSE IF "data" \in DOMAIN a THEN Len(a.data)
                            ELSE a.n

mxGetCell(a, k) == a.cells[k + 1]

\* A buffer of m logicals, all false.
mxCreateLogicalMatrix_AllTrue(m) == [p \in 1..m |-> TRUE]

mxCreateLogicalMatrix(m) == [p \in 1..m |-> FALSE]

mxCreateCellMatrix(m) == [p \in 1..m |-> 0]

\* The request can be served; a larger one ends the call out of memory.
CanAllocate(m) == m <= MaxLen

\* mexErrMsgIdAndTxt: the call ends with the message, nothing is returned.
Raise(msg) == /\ status' = msg
              /\ pc' = "done"

\* Abnormal end of the host process.
Crash == /\ status' = "crash"
         /\ pc' = "done"

(* ---- the checks of lines 6-38 ---- *)
NrhsOK == nrhs = 2

NlhsOK_AtMostOne == nlhs <= 1

NlhsOK == nlhs = 1

IndicesIsCell == mxGetClassID(in_indices) = "mxCELL_CLASS"

SizeIsDouble == mxGetClassID(in_size) = "mxDOUBLE_CLASS"

IsScalar_AtLeastOne(n) == n >= 1

IsScalar(n) == n = 1

\* (size_t) of a double given in halves: the fraction is dropped; defined
\* only when the truncated value is representable, that is > -1.
Truncates(v2) == v2 > -2

ToSizeT(v2) == IF v2 >= 0 THEN v2 \div 2 ELSE 0

\* logical_inds_ptr[v] = true, for v inside the buffer.
Store_Toggle(mask, v) == [mask EXCEPT ![v + 1] = ~mask[v + 1]]

Store(mask, v) == [mask EXCEPT ![v + 1] = TRUE]

Init ==
    /\ \E c \in Calls :
          /\ nrhs = c.nrhs
          /\ nlhs = c.nlhs
          /\ in_indices = c.indices
          /\ in_size = c.size
    /\ pc = "L6"
    /\ n_indices = 0
    /\ n_size = 0
    /\ size = 0
    /\ i = 0
    /\ j = 0
    /\ out = <<>>
    /\ outCreated = 0
    /\ outReleased = 0
    /\ heap = <<>>
    /\ cur = 0
    /\ plhs = <<>>
    /\ status = "running"
    /\ inspected = FALSE
    /\ wild = FALSE

\* lines 6-9
CheckNrhs ==
    /\ pc = "L6"
    /\ IF NrhsOK
          THEN pc' = "L11" /\ UNCHANGED status
          ELSE Raise("Wrong number of inputs.")
    /\ UNCHANGED <<nlhs, nrhs, in_indices, in_size, n_indices, n_size, size, i, j,
                   out, outCreated, outReleased, heap, cur, plhs, inspected, wild>>

\* lines 11-14
CheckNlhs ==
    /\ pc = "L11"
    /\ IF NlhsOK
          THEN pc' = "L19" /\ UNCHANGED status
          ELSE Raise("Wrong number of outputs.")
    /\ UNCHANGED <<nlhs, nrhs, in_indices, in_size, n_indices, n_size, size, i, j,
                   out, outCreated, outReleased, heap, cur, plhs, inspected, wild>>

\* lines 16-25
CheckIndicesClass ==
    /\ pc = "L19"
    /\ inspected' = TRUE
    /\ IF IndicesIsCell
          THEN pc' = "L27" /\ UNCHANGED status
          ELSE Raise("Indices must be cell array.")
    /\ UNCHANGED <<nlhs, nrhs, in_indices, in_size, n_indices, n_size, size, i, j,
                   out, outCreated, outReleased, heap, cur, plhs, wild>>

\* lines 27-30
CheckSizeClass ==
    /\ pc = "L27"
    /\ IF SizeIsDouble
          THEN pc' = "L32" /\ UNCHANGED status
          ELSE Raise("Size must be double.")
    /\ UNCHANGED <<nlhs, nrhs, in_indices, in_size, n_indices, n_size, size, i, j,
                   out, outCreated, outReleased, heap, cur, plhs, inspected, wild>>

\* lines 32-38
CheckScalar ==
    /\ pc = "L32"
    /\ n_indices' = mxGetNumberOfElements(in_indices)
    /\ n_size' = mxGetNumberOfElements(in_size)
    /\ IF IsScalar(n_size')
          THEN pc' = "L40" /\ UNCHANGED status
          ELSE Raise("Size must be scalar.")
    /\ UNCHANGED <<nlhs, nrhs, in_indices, in_size, size, i, j,
                   out, outCreated, outReleased, heap, cur, plhs, inspected, wild>>

\* line 40: size_t size = mxGetScalar(in_size).  A double whose truncation
\* is not representable in size_t converts to an unspecified value: any size
\* that can be allocated, or one that cannot (MaxLen + 1).
ConvertSize ==
    /\ pc = "L40"
    /\ IF Truncates(in_size.val2)
          THEN size' = ToSizeT(in_size.val2)
          ELSE size' \in 0..(MaxLen + 1)
    /\ pc' = "L42"
    /\ UNCHANGED <<nlhs, nrhs, in_indices, in_size, n_indices, n_size, i, j,
                   out, outCreated, outReleased, heap, cur, plhs, status, inspected, wild>>

\* line 42
CreateOut ==
    /\ pc = "L42"
    /\ out' = mxCreateCellMatrix(n_indices)
    /\ outCreated' = outCreated + 1
    /\ i' = 0
    /\ pc' = "L44"
    /\ UNCHANGED <<nlhs, nrhs, in_indices, in_size, n_indices, n_size, size, j,
                   outReleased, heap, cur, plhs, status, inspected, wild>>

\* lines 44-48: loop test, then the class test of cell i
LoopTest ==
    /\ pc = "L44"
    /\ IF i < n_indices
          THEN IF mxGetClassID(mxGetCell(in_indices, i)) # "mxUINT64_CLASS"
                  THEN pc' = "L50" /\ j' = 0
                  ELSE pc' = "L59" /\ UNCHANGED j
          ELSE pc' = "L73" /\ UNCHANGED j
    /\ UNCHANGED <<nlhs, nrhs, in_indices, in_size, n_indices, n_size, size, i,
                   out, outCreated, outReleased, heap, cur, plhs, status, inspected, wild>>

\* lines 50-53: mxDestroyArray(mxGetCell(out, j)), the cell keeps its pointer
DestroyEarlier ==
    /\ pc = "L50"
    /\ IF j < i
          THEN /\ heap' = [heap EXCEPT ![out[j + 1]].released = @ + 1]
               /\ j' = j + 1
               /\ pc' = "L50"
          ELSE /\ pc' = "L55"
               /\ UNCHANGED <<heap, j>>
    /\ UNCHANGED <<nlhs, nrhs, in_indices, in_size, n_indices, n_size, size, i,
                   out, outCreated, outReleased, plhs, status, cur, inspected, wild>>

\* line 55: mxDestroyArray of a cell array destroys the array and every
\* non-NULL cell it holds.  Destroying a matrix that is already destroyed is
\* undefined: the host may abort, or the call may go on.
DestroyOut ==
    /\ pc = "L55"
    /\ outReleased' = outReleased + 1
    /\ heap' = [h \in DOMAIN heap |->
                   IF \E k \in DOMAIN out : out[k] = h
                      THEN [heap[h] EXCEPT !.released = @ + 1]
                      ELSE heap[h]]
    /\ IF \E k \in DOMAIN out : out[k] # 0 /\ heap[out[k]].released > 0
          THEN \/ Crash
               \/ pc' = "L56" /\ UNCHANGED status
          ELSE pc' = "L56" /\ UNCHANGED status
    /\ UNCHANGED <<nlhs, nrhs, in_indices, in_size, n_indices, n_size, size, i, j,
                   out, outCreated, plhs, cur, inspected, wild>>

\* line 56
RaiseNotUint64 ==
    /\ pc = "L56"
    /\ Raise("Indices must be uint64.")
    /\ UNCHANGED <<nlhs, nrhs, in_indices, in_size, n_indices, n_size, size, i, j,
                   out, outCreated, outReleased, heap, cur, plhs, inspected, wild>>

\* lines 59-63: the buffer of cell i
CreateMask ==
    /\ pc = "L59"
    /\ IF CanAllocate(size)
          THEN /\ heap' = Append(heap, [data |-> mxCreateLogicalMatrix(size), released |-> 0])
               /\ cur' = Len(heap) + 1
               /\ j' = 0
               /\ pc' = "L65"
               /\ UNCHANGED status
          ELSE /\ Raise("Out of memory.")
               /\ UNCHANGED <<heap, cur, j>>
    /\ UNCHANGED <<nlhs, nrhs, in_indices, in_size, n_indices, n_size, size, i,
                   out, outCreated, outReleased, plhs, inspected, wild>>

\* lines 65-68: one store per step.  Nothing compares the index with size:
\* a store at v >= size lands outside the buffer, which is undefined.  It
\* may abort the host, hit memory the model does not follow, or hit a byte
\* of another buffer of this call.
Scatter ==
    /\ pc = "L65"
    /\ LET ind == mxGetCell(in_indices, i).data
       IN IF j < Len(ind)
             THEN /\ j' = j + 1
                  /\ IF ind[j + 1] < size
                        THEN /\ heap' = [heap EXCEPT ![cur].data = Store(@, ind[j + 1])]
                             /\ pc' = "L65"
                             /\ UNCHANGED <<status, wild>>
                        ELSE /\ wild' = TRUE
                             /\ \/ Crash /\ UNCHANGED heap
                                \/ pc' = "L65" /\ UNCHANGED <<status, heap>>
                                \/ /\ pc' = "L65"
                                   /\ UNCHANGED status
                                   /\ \E h \in DOMAIN heap \ {cur} :
                                        \E q \in DOMAIN heap[h].data :
                                           heap' = [heap EXCEPT ![h].data[q] = TRUE]
             ELSE /\ pc' = "L70"
                  /\ UNCHANGED <<j, heap, status, wild>>
    /\ UNCHANGED <<nlhs, nrhs, in_indices, in_size, n_indices, n_size, size, i,
                   out, outCreated, outReleased, cur, plhs, inspected>>

\* line 70 and the i++ of line 44
SetCell ==
    /\ pc = "L70"
    /\ out' = [out EXCEPT ![i + 1] = cur]
    /\ i' = i + 1
    /\ pc' = "L44"
    /\ UNCHANGED <<nlhs, nrhs, in_indices, in_size, n_indices, n_size, size, j,
                   outCreated, outReleased, heap, cur, plhs, status, inspected, wild>>

\* line 73
Return ==
    /\ pc = "L73"
    /\ plhs' = <<[k \in DOMAIN out |-> heap[out[k]].data]>>
    /\ status' = "ok"
    /\ pc' = "done"
    /\ UNCHANGED <<nlhs, nrhs, in_indices, in_size, n_indices, n_size, size, i, j,
                   out, outCreated, outReleased, heap, cur, inspected, wild>>

Next ==
    \/ CheckNrhs
    \/ CheckNlhs
    \/ CheckIndicesClass
    \/ CheckSizeClass
    \/ CheckScalar
    \/ ConvertSize
    \/ CreateOut
    \/ LoopTest
    \/ DestroyEarlier
    \/ DestroyOut
    \/ RaiseNotUint64
    \/ CreateMask
    \/ Scatter
    \/ SetCell
    \/ Return

Spec == Init /\ [][Next]_vars

(***************************************************************************)
(* Vocabulary of the properties, stated on the caller's arguments and on   *)
(* what the caller observes.                                               *)
(***************************************************************************)
Range(s) == {s[k] : k \in DOMAIN s}

IndexBatch == in_indices.cells

IndexSet(k) == IndexBatch[k].data

\* The length argument is a non-negative integer.
ValidLength == in_size.val2 >= 0 /\ in_size.val2 % 2 = 0

Length == in_size.val2 \div 2

\* 0 <= v < Length, for the length as the caller wrote it.
InRange(v) == 0 <= v /\ 2 * v < in_size.val2

AllInRange == \A k \in DOMAIN IndexBatch : \A v \in Range(IndexSet(k)) : InRange(v)

AllUint64 == \A k \in DOMAIN IndexBatch : IndexBatch[k].class = "mxUINT64_CLASS"

ArityOK == nrhs = 2 /\ nlhs = 1

ShapeOK == /\ in_indices.class = "mxCELL_CLASS"
           /\ in_size.class = "mxDOUBLE_CLASS"
           /\ in_size.n = 1

ArityMessages == {"Wrong number of inputs.", "Wrong number of outputs."}

ShapeMessages == {"Indices must be cell array.", "Size must be double.",
                  "Size must be scalar."}

ErrorMessages == ArityMessages \cup ShapeMessages
                    \cup {"Indices must be uint64.", "Out of memory."}

Done == pc = "done"

Succeeded == Done /\ status = "ok"

Result == plhs[1]

NothingAllocated == outCreated = 0 /\ heap = <<>>

\* C1: in every call that returns successfully, result[i][p] is true exactly
\* when p is a value of index set i, for every i and every 0 <= p < Length.
C1_MaskIsMembership ==
    (Succeeded /\ ValidLength) =>
        /\ Len(Result) = Len(IndexBatch)
        /\ \A k \in DOMAIN IndexBatch : \A p \in 0..(Length - 1) :
              (p < Len(Result[k]) /\ Result[k][p + 1]) <=> (p \in Range(IndexSet(k)))

\* C2: a call (of valid arity, shape and length) with an index value outside
\* [0, Length) ends in an error, hands nothing to the caller and never
\* stores outside a mask.
C2_OutOfRangeRejected ==
    (Done /\ ArityOK /\ ShapeOK /\ ValidLength /\ ~AllInRange) =>
        /\ status \in ErrorMessages
        /\ plhs = <<>>
        /\ ~wild

\* C3: in every call that returns successfully (the length being one whose
\* conversion to a size is defined) there is one mask per index set and
\* every mask has exactly Length elements.
C3_Shape ==
    (Succeeded /\ in_size.val2 > -2) =>
        /\ Len(Result) = Len(IndexBatch)
        /\ \A k \in DOMAIN Result : 2 * Len(Result[k]) = in_size.val2

\* C4: when some index set is not uint64 (the inputs being otherwise valid),
\* the call ends with the element-type error, every mask built before it and
\* the output container are discarded, and the caller receives nothing.
C4_TypeErrorAllOrNothing ==
    (Done /\ ArityOK /\ ShapeOK /\ ValidLength /\ AllInRange /\ ~AllUint64) =>
        /\ status = "Indices must be uint64."
        /\ plhs = <<>>
        /\ outReleased >= 1
        /\ \A h \in DOMAIN heap : heap[h].released >= 1

\* C5: a call with other than two inputs or other than one output ends with
\* an arity error, and at no point of such a call is an input inspected, the
\* output container or a mask allocated, or an output assigned.
C5_ArityFirst ==
    /\ (Done /\ ~ArityOK) => status \in ArityMessages
    /\ (status \in ArityMessages) => ~ArityOK
    /\ ~ArityOK => (~inspected /\ NothingAllocated /\ plhs = <<>>)

C5_Witness ==
    /\ Done
    /\ nrhs = 2
    /\ nlhs # 1
    /\ status = "Wrong number of outputs."
    /\ ~inspected

\* C6: a call of the right arity whose batch is not a cell array, or whose
\* length is not a double, or not exactly one element, ends with a shape
\* error; nothing is allocated in such a call, and whenever something is
\* allocated every shape check has already passed.
C6_ShapeBeforeAllocation ==
    /\ (Done /\ ArityOK /\ ~ShapeOK) => (status \in ShapeMessages /\ plhs = <<>>)
    /\ (status \in ShapeMessages) => (~ShapeOK /\ NothingAllocated)
    /\ ~NothingAllocated =>
          (ShapeOK /\ pc \notin {"L6", "L11", "L19", "L27", "L32"})

C6_Witness ==
    /\ Done
    /\ ArityOK
    /\ in_indices.class = "mxCELL_CLASS"
    /\ in_size.class = "mxDOUBLE_CLASS"
    /\ in_size.n = 2
    /\ status = "Size must be scalar."
    /\ NothingAllocated

\* C7: a call whose length is negative ends in an error before anything is
\* allocated, and the caller receives nothing.
C7_NegativeLengthRejected ==
    (Done /\ ArityOK /\ ShapeOK /\ in_size.val2 < 0) =>
        /\ status \in ErrorMessages
        /\ plhs = <<>>
        /\ NothingAllocated

\* C8: in a successful call on valid input (integer length, every value in
\* range), two index sets with the same distinct values, whatever the order
\* and the repetitions of their elements, get identical masks.
C8_OnlyDistinctValuesMatter ==
    (Succeeded /\ ValidLength /\ AllInRange) =>
        \A a, b \in DOMAIN IndexBatch :
            Range(IndexSet(a)) = Range(IndexSet(b)) => Result[a] = Result[b]

C8_Witness ==
    /\ Succeeded
    /\ ValidLength
    /\ AllInRange
    /\ \E a, b \in DOMAIN IndexBatch :
          /\ IndexSet(a) # IndexSet(b)
          /\ Range(IndexSet(a)) = Range(IndexSet(b))
          /\ Len(IndexSet(a)) = 2 * Len(IndexSet(b))
          /\ \E p \in DOMAIN Result[a] : Result[a][p]

\* C9: a call on valid input (right arity and shape, integer length, uint64
\* sets, values in range) succeeds with one mask per index set; the mask of
\* an empty index set is Length elements, all false; an empty batch gives an
\* empty result; and with an empty batch a length argument that is not one
\* element is still a shape error.
C9_EmptyCases ==
    /\ (Done /\ ArityOK /\ ShapeOK /\ ValidLength /\ AllUint64 /\ AllInRange) =>
          /\ Succeeded
          /\ Len(Result) = Len(IndexBatch)
          /\ \A k \in DOMAIN IndexBatch :
                IndexSet(k) = <<>> => Result[k] = [p \in 1..Length |-> FALSE]
    /\ (Done /\ ArityOK /\ in_indices.class = "mxCELL_CLASS"
             /\ in_size.class = "mxDOUBLE_CLASS"
             /\ IndexBatch = <<>> /\ in_size.n # 1) =>
          (status = "Size must be scalar." /\ plhs = <<>>)

C9_Witness ==
    /\ Succeeded
    /\ ValidLength
    /\ Length > 0
    /\ \E k \in DOMAIN IndexBatch :
          /\ IndexSet(k) = <<>>
          /\ Len(Result[k]) = Length
          /\ \A p \in DOMAIN Result[k] : ~Result[k][p]

\* C10: once the element-type failure path has destroyed the output
\* container (in a call of valid length and in-range values), the container
\* and every mask allocated before the failure have each been released
\* exactly once.
C10_ReleasedExactlyOnce ==
    (outReleased >= 1 /\ ValidLength /\ AllInRange) =>
        /\ outReleased = 1
        /\ \A h \in DOMAIN heap : heap[h].released = 1

====
